---- MODULE Spec2Model ----
(***************************************************************************)
(* Password authentication controllers of User.PassAuth.controller.js:     *)
(* PassportRegister, PassportLogIn, PassportLogOut, ForgotPassword and     *)
(* ResetPassword, run as concurrent requests against one credential store. *)
(* A request is suspended at every awaited store, session or mail call, so *)
(* each handler is a sequence of steps, one per call boundary; the requests *)
(* in flight form a bag.                                                    *)
(***************************************************************************)
EXTENDS Integers, Sequences, FiniteSets, Bags, TLC

(* ------------------------------------------------------------------ *)
(* Bounds of the model                                                 *)
(* ------------------------------------------------------------------ *)
\* number of requests that may be in flight at the same time
MaxInFlight == 2
\* the clock advances in steps of TickMs milliseconds, up to MaxNow
TickMs == 1800000
MaxNow == 5400000

(* ------------------------------------------------------------------ *)
(* Values: strings are sequences of one-character strings              *)
(* ------------------------------------------------------------------ *)
\* a field that is absent from the request body (JavaScript undefined)
Undefined == << "undefined" >>
\* a nullable column or an optional result: {} is null, {v} is the value v
Null == {}
Some(v) == {v}
The(o) == CHOOSE v \in o : TRUE

UpperCase == {"A", "N"}
LowerCase == {"a", "b", "c", "d", "e", "m", "o", "p", "w"}
Digits == {"0", "1", "2", "3", "4", "5", "6", "7", "8", "9"}
Specials == {"!"}

HasCharIn(s, class) == \E i \in 1..Len(s) : s[i] \in class

\* utils/validation.js validateRequiredFields: the error text when a field
\* is absent or empty, null (here {}) when every field is present
validateRequiredFields(fields) ==
    IF \E i \in 1..Len(fields) : fields[i] = Undefined \/ fields[i] = << >>
    THEN Some("Missing required fields.")
    ELSE Null

\* utils/validation.js validateEmail: local@domain.tld, no blank, one "@"
validateEmail(email) ==
    /\ email # Undefined
    /\ \E i \in 1..Len(email) : \E j \in 1..Len(email) :
          /\ email[i] = "@"
          /\ email[j] = "."
          /\ 1 < i
          /\ i + 1 < j
          /\ j < Len(email)
          /\ \A k \in 1..Len(email) : (email[k] = "@" => k = i) /\ email[k] # " "

\* utils/validation.js validatePassword: at least 6 characters with an
\* uppercase letter, a lowercase letter, a digit and a special character
validatePassword(password) ==
    /\ password # Undefined
    /\ Len(password) >= 6
    /\ HasCharIn(password, UpperCase)
    /\ HasCharIn(password, LowerCase)
    /\ HasCharIn(password, Digits)
    /\ HasCharIn(password, Specials)

\* utils/validation.js validatePhoneNumber: +91 followed by 10 digits
validatePhoneNumber(phoneNumber) ==
    /\ phoneNumber # Undefined
    /\ Len(phoneNumber) = 13
    /\ phoneNumber[1] = "+"
    /\ phoneNumber[2] = "9"
    /\ phoneNumber[3] = "1"
    /\ \A k \in 4..13 : phoneNumber[k] \in Digits

(* ------------------------------------------------------------------ *)
(* Inputs the requests are drawn from                                   *)
(* ------------------------------------------------------------------ *)
EmailA == << "a", "@", "b", ".", "c", "o", "m" >>
EmailB == << "c", "@", "d", ".", "o", "e" >>
EmailBad == << "a", "b", ".", "c", "o", "m" >>
PwdOld == << "A", "b", "c", "d", "1", "!" >>
PwdNew == << "N", "e", "w", "p", "1", "!" >>
PwdWeak == << "a", "b", "c" >>
Phone == << "+", "9", "1", "9", "8", "7", "6", "5", "4", "3", "2", "1", "0" >>
PhoneBad == << "9", "8", "7" >>
RoleAdmin == << "a", "d", "m", "i", "n" >>
RoleUser == << "u", "s", "e", "r" >>
RoleRoot == << "r", "o", "o", "t" >>

Emails == {EmailA, EmailB}

\* lines 23, 62 and 160: the message of a rejected password
WeakPassword ==
    "Password must be at least 6 characters long, include uppercase and lowercase letters, a number, and a special character."

\* line 13
allowedRoles == {RoleAdmin, RoleUser}

\* the password column holds a one-way hash (the model's save hook)
Hash(password) == << "#" >> \o password

\* crypto.randomBytes(3): the byte triples the random source may return
RandomBytes == { << 10, 27, 60 >>, << 171, 205, 239 >> }

HexDigit(n) ==
    << "0", "1", "2", "3", "4", "5", "6", "7", "8", "9",
       "a", "b", "c", "d", "e", "f" >>[n + 1]

\* Buffer.toString("hex"): two lowercase hex digits per byte
RECURSIVE ToHex(_)
ToHex(bytes) ==
    IF bytes = << >>
    THEN << >>
    ELSE << HexDigit(Head(bytes) \div 16), HexDigit(Head(bytes) % 16) >>
            \o ToHex(Tail(bytes))

Tokens == { ToHex(b) : b \in RandomBytes }

\* line 145: tokenExpiration = Date.now() + 3600000
ResetWindowMs == 3600000

Clients == {"c1"}

(* ------------------------------------------------------------------ *)
(* State                                                               *)
(* ------------------------------------------------------------------ *)
VARIABLES
    users,       \* rows of the User table
    nextId,      \* next value of the userid primary key
    now,         \* Date.now() in milliseconds
    sessions,    \* session store: the saved session of each client, or Null
    cookies,     \* cookie jar of each client
    req,         \* the requests in flight, a bag of request records
    spent,       \* history: tokens consumed since the last token was issued
    resetCount,  \* history: password resets per user since its last issue
    lastReply    \* history: the last reply each client received

vars == << users, nextId, now, sessions, cookies, req,
           spent, resetCount, lastReply >>

store == << users, nextId >>
history == << spent, resetCount, lastReply >>

\* req.session before any handler touched it
EmptySession == [userId |-> Null, passport |-> Null,
                 destroyed |-> FALSE, dirty |-> FALSE]

NoBody == [email |-> Undefined, password |-> Undefined, role |-> Undefined,
           phoneNumber |-> Undefined, newPassword |-> Undefined,
           token |-> Undefined]

\* the session middleware loads the client's saved session into req.session
LoadSession(c) ==
    IF cookies[c].sid /\ sessions[c] # Null
    THEN [userId |-> The(sessions[c]).userId,
          passport |-> The(sessions[c]).passport,
          destroyed |-> FALSE, dirty |-> FALSE]
    ELSE EmptySession

\* a request and the locals of its handler; err is the error a callback of
\* the handler was called with (err, loginErr), Null when it was called with
\* none; replay is history: the token lookup of this request ran on a spent
\* token
NewRequest(kind, c, body) ==
    [kind |-> kind, pc |-> "begin", client |-> c, body |-> body,
     existingUser |-> Null, user |-> Null, sanitizedUser |-> Null,
     resetToken |-> Null, tokenExpiration |-> Null, queryNow |-> 0,
     mail |-> Null, session |-> LoadSession(c), res |-> Null,
     err |-> Null, replay |-> FALSE]

InFlight == BagToSet(req)

\* utils/ApiResponse.js: {statusCode, data, message}, with the cookies the
\* response sets (session_cookie) and clears
ApiResponse(status, data, message) ==
    [status |-> status, data |-> data, message |-> message,
     cookie |-> Null, cleared |-> {}, sid |-> FALSE]

\* utils/ApiError.js thrown inside utils/asyncHandler.js, or passed to next():
\* the error handler answers with the error's status and message
ApiError(status, message) == ApiResponse(status, Null, message)

\* an error that carries no statusCode reaches the client as 500
InternalError(message) == ApiError(500, message)

\* the session middleware saves a modified session when the response ends
SessionSaved(r) == r.session.dirty /\ ~r.session.destroyed

SaveSession(r) ==
    IF SessionSaved(r)
    THEN [sessions EXCEPT ![r.client] =
            Some([userId |-> r.session.userId, passport |-> r.session.passport])]
    ELSE sessions

\* res.json(...): the request r ends with the response
Responded(r, response) ==
    [r EXCEPT !.pc = "done",
              !.res = Some([response EXCEPT !.sid = SessionSaved(r)])]

\* the request r suspends at its next awaited call
Suspended(r, pc) == [r EXCEPT !.pc = pc]

\* a request arrives and runs up to its first awaited call, or its response
Arrive(r) ==
    /\ BagCardinality(req) < MaxInFlight
    /\ req' = req (+) SetToBag({r})
    /\ sessions' = IF r.pc = "done" THEN SaveSession(r) ELSE sessions

\* the request old resumes and runs up to its next awaited call, or its
\* response
Resume(old, r) ==
    /\ req' = (req (-) SetToBag({old})) (+) SetToBag({r})
    /\ sessions' = IF r.pc = "done" THEN SaveSession(r) ELSE sessions

\* attributes: { exclude: ['password'] }
ExcludePassword(u) == [f \in (DOMAIN u) \ {"password"} |-> u[f]]

\* User.findOne({ where: { email } }): the rows with that email
FindByEmail(email) == { u \in users : u.email = email }

\* what findOne may resolve with: one of the rows, or null when there is none
FindOne(rows) == IF rows = {} THEN {Null} ELSE { Some(u) : u \in rows }

\* Middlewares/AuthMiddleware/Session.midleware.js setSessionForUser
setSessionForUser(session, userid) ==
    [session EXCEPT !.userId = Some(userid), !.dirty = TRUE]

\* the state with the rows `rows` in the User table and nothing in flight
InitWith(rows) ==
    /\ users = rows
    /\ nextId = Cardinality(rows) + 1
    /\ now = 0
    /\ sessions = [c \in Clients |-> Null]
    /\ cookies = [c \in Clients |-> [sid |-> FALSE, session_cookie |-> Null]]
    /\ req = EmptyBag
    /\ spent = {}
    /\ resetCount = [e \in Emails |-> 0]
    /\ lastReply = [c \in Clients |-> "other"]

\* the server starts with an empty User table
Init == InitWith({})

(* ------------------------------------------------------------------ *)
(* PassportRegister, lines 16-53                                        *)
(* ------------------------------------------------------------------ *)
RegisterA == [NoBody EXCEPT !.email = EmailA, !.password = PwdOld,
                            !.phoneNumber = Phone, !.role = RoleAdmin]
RegisterB == [NoBody EXCEPT !.email = EmailB, !.password = PwdOld,
                            !.phoneNumber = Phone]

RegisterBodies ==
    { RegisterA, RegisterB,
      [RegisterA EXCEPT !.role = RoleRoot],
      [RegisterB EXCEPT !.role = RoleUser],
      [RegisterB EXCEPT !.role = RoleRoot],
      [RegisterA EXCEPT !.email = Undefined],
      [RegisterA EXCEPT !.password = << >>],
      [RegisterA EXCEPT !.phoneNumber = Undefined],
      [RegisterA EXCEPT !.email = EmailBad],
      [RegisterA EXCEPT !.password = PwdWeak],
      [RegisterA EXCEPT !.phoneNumber = PhoneBad] }

\* mutant: the phone number is left out of the required fields and unchecked
RegisterValidation_NoPhone(body) ==
    LET requiredFieldErrors ==
            validateRequiredFields(<< body.email, body.password >>)
    IN  IF requiredFieldErrors # Null THEN requiredFieldErrors
        ELSE IF ~validateEmail(body.email) THEN Some("Invalid email format.")
        ELSE IF ~validatePassword(body.password) THEN Some(WeakPassword)
        ELSE Null

\* lines 19-29: the first failing check's message, Null when all pass
RegisterValidation(body) ==
    LET requiredFieldErrors ==
            validateRequiredFields(<< body.email, body.password, body.phoneNumber >>)
    IN  IF requiredFieldErrors # Null THEN requiredFieldErrors
        ELSE IF ~validateEmail(body.email) THEN Some("Invalid email format.")
        ELSE IF ~validatePassword(body.password) THEN Some(WeakPassword)
        ELSE IF ~validatePhoneNumber(body.phoneNumber)
             THEN Some("Phone number must be in the format +91 followed by 10 digits.")
        ELSE Null

\* lines 16-31: the request arrives, is validated and issues its lookup
RegisterBegin(c, body) ==
    /\ LET r == NewRequest("Register", c, body)
           error == RegisterValidation(body)
       IN  IF error # Null
           THEN Arrive(Responded(r, ApiError(400, The(error))))
           ELSE Arrive(Suspended(r, "findOne"))
    /\ UNCHANGED << store, now, cookies, history >>

\* mutant: the lookup result is not tested, the handler goes on to create
RegisterFindOne_NoConflict(r) ==
    /\ r.kind = "Register" /\ r.pc = "findOne"
    /\ \E existingUser \in FindOne(FindByEmail(r.body.email)) :
          Resume(r, Suspended([r EXCEPT !.existingUser = existingUser], "create"))
    /\ UNCHANGED << store, now, cookies, history >>

\* lines 31-34: User.findOne({ where: { email } }) resolves
RegisterFindOne(r) ==
    /\ r.kind = "Register" /\ r.pc = "findOne"
    /\ \E existingUser \in FindOne(FindByEmail(r.body.email)) :
          LET found == [r EXCEPT !.existingUser = existingUser]
          IN  IF existingUser # Null
              THEN Resume(r, Responded(found, ApiError(409, "User already exists.")))
              ELSE Resume(r, Suspended(found, "create"))
    /\ UNCHANGED << store, now, cookies, history >>

\* mutant: the requested role is stored as it is
UserRole_AsRequested(role) == role

\* line 36
UserRole(role) == IF role \in allowedRoles THEN role ELSE RoleUser

\* the row User.create inserts
NewUser(userid, body) ==
    [userid |-> userid, email |-> body.email, password |-> Hash(body.password),
     role |-> UserRole(body.role), phoneNumber |-> body.phoneNumber,
     resetToken |-> Null, tokenExpiration |-> Null]

\* mutant: the email column has no unique index
UniqueViolation_NoIndex(email) == FALSE

\* the unique index on email rejects a second row with the same email
UniqueViolation(email) == FindByEmail(email) # {}

\* lines 36-41: User.create resolves with the new row, or rejects
RegisterCreate(r) ==
    /\ r.kind = "Register" /\ r.pc = "create"
    /\ IF UniqueViolation(r.body.email)
       THEN /\ Resume(r, Responded(r, InternalError("Validation error")))
            /\ UNCHANGED store
       ELSE LET user == NewUser(nextId, r.body)
            IN  /\ users' = users \cup {user}
                /\ nextId' = nextId + 1
                /\ Resume(r, Suspended([r EXCEPT !.user = Some(user)], "bind"))
    /\ UNCHANGED << now, cookies, history >>

\* mutant: a rejected setSessionForUser is swallowed and the handler goes on
RegisterBind_Swallow(r) ==
    /\ r.kind = "Register" /\ r.pc = "bind"
    /\ \E ok \in BOOLEAN :
          IF ok
          THEN Resume(r, Suspended([r EXCEPT !.session =
                                      setSessionForUser(@, The(r.user).userid)],
                                   "refetch"))
          ELSE Resume(r, Suspended(r, "refetch"))
    /\ UNCHANGED << store, now, cookies, history >>

\* mutant: a rejected setSessionForUser removes the created row again
RegisterBind_Rollback(r) ==
    /\ r.kind = "Register" /\ r.pc = "bind"
    /\ \E ok \in BOOLEAN :
          IF ok
          THEN /\ Resume(r, Suspended([r EXCEPT !.session =
                                         setSessionForUser(@, The(r.user).userid)],
                                      "refetch"))
               /\ UNCHANGED store
          ELSE /\ Resume(r, Responded(r, InternalError("Session error")))
               /\ users' = users \ {The(r.user)}
               /\ UNCHANGED nextId
    /\ UNCHANGED << now, cookies, history >>

\* line 43: setSessionForUser resolves, or rejects
RegisterBind(r) ==
    /\ r.kind = "Register" /\ r.pc = "bind"
    /\ \E ok \in BOOLEAN :
          IF ok
          THEN Resume(r, Suspended([r EXCEPT !.session =
                                      setSessionForUser(@, The(r.user).userid)],
                                   "refetch"))
          ELSE Resume(r, Responded(r, InternalError("Session error")))
    /\ UNCHANGED << store, now, cookies, history >>

\* lines 45-52: the password-free projection is read and sent with 201
RegisterRefetch(r) ==
    /\ r.kind = "Register" /\ r.pc = "refetch"
    /\ \E found \in FindOne(FindByEmail(r.body.email)) :
          LET createdUser == { ExcludePassword(u) : u \in found }
          IN  Resume(r, Responded([r EXCEPT !.sanitizedUser = createdUser],
                          ApiResponse(201, createdUser, "User registered successfully.")))
    /\ UNCHANGED << store, now, cookies, history >>

(* ------------------------------------------------------------------ *)
(* PassportLogIn, lines 56-114                                          *)
(* ------------------------------------------------------------------ *)
LogInBodies ==
    { [NoBody EXCEPT !.email = e, !.password = w] :
          e \in Emails, w \in {PwdOld, PwdNew} }
    \cup
    { [NoBody EXCEPT !.email = EmailA],
      [NoBody EXCEPT !.email = EmailBad, !.password = PwdOld],
      [NoBody EXCEPT !.email = EmailA, !.password = PwdWeak] }

\* lines 59-68
LogInValidation(body) ==
    LET requiredFieldErrors ==
            validateRequiredFields(<< body.email, body.password >>)
    IN  IF requiredFieldErrors # Null THEN requiredFieldErrors
        ELSE IF ~validateEmail(body.email) THEN Some("Invalid email format.")
        ELSE IF ~validatePassword(body.password) THEN Some(WeakPassword)
        ELSE Null

\* lines 56-70: validation, then passport.authenticate('local') starts
LogInBegin(c, body) ==
    /\ LET r == NewRequest("LogIn", c, body)
           error == LogInValidation(body)
       IN  IF error # Null
           THEN Arrive(Responded(r, ApiError(400, The(error))))
           ELSE Arrive(Suspended(r, "verify"))
    /\ UNCHANGED << store, now, cookies, history >>

\* mutant: the strategy names the field that was wrong
StrategyInfo_FieldSpecific(found) ==
    IF found = Null THEN Some("Incorrect email.") ELSE Some("Incorrect password.")

\* db/passport.js, the local strategy: the reason it reports for a failed
\* verification is the same whether the email or the password was wrong
StrategyInfo(found) == Some("Invalid email or password.")

\* line 76: info || "Invalid login credentials."
UnauthorizedMessage(info) ==
    IF info # Null THEN The(info) ELSE "Invalid login credentials."

\* lines 70-80: the strategy's verify resolves and the callback runs up to
\* its first awaited call
LogInVerify(r) ==
    /\ r.kind = "LogIn" /\ r.pc = "verify"
    /\ \E err \in BOOLEAN :
       \E found \in FindOne(FindByEmail(r.body.email)) :
          LET user == IF found # Null
                         /\ The(found).password = Hash(r.body.password)
                      THEN found ELSE Null
              verified == [r EXCEPT !.existingUser = found, !.user = user]
          IN  IF err
              THEN Resume(r, Responded([r EXCEPT !.err = Some("Authentication error")],
                                       InternalError("Authentication error")))
              ELSE IF user = Null
              THEN Resume(r, Responded(verified,
                               ApiResponse(401, Null,
                                   UnauthorizedMessage(StrategyInfo(found)))))
              ELSE Resume(r, Suspended(verified, "bind"))
    /\ UNCHANGED << store, now, cookies, history >>

\* lines 80-85: setSessionForUser resolves, or rejects into next(error)
LogInBind(r) ==
    /\ r.kind = "LogIn" /\ r.pc = "bind"
    /\ \E ok \in BOOLEAN :
          IF ok
          THEN Resume(r, Suspended([r EXCEPT !.session =
                                      setSessionForUser(@, The(r.user).userid)],
                                   "refetch"))
          ELSE Resume(r, Responded(r, InternalError("Session error")))
    /\ UNCHANGED << store, now, cookies, history >>

\* lines 82-92: the password-free projection is read; req.login starts
LogInRefetch(r) ==
    /\ r.kind = "LogIn" /\ r.pc = "refetch"
    /\ \E found \in FindOne(FindByEmail(The(r.user).email)) :
          LET sanitizedUser == { ExcludePassword(u) : u \in found }
          IN  IF sanitizedUser = Null
              THEN Resume(r, Responded(r, ApiError(404, "User not found.")))
              ELSE Resume(r, Suspended([r EXCEPT !.sanitizedUser = sanitizedUser],
                                       "login"))
    /\ UNCHANGED << store, now, cookies, history >>

\* mutant: the body carries the verified user, not the password-free projection
LogInSuccess_RawUser(r) ==
    [ApiResponse(200, r.user, "Login successful")
        EXCEPT !.cookie = Some(The(r.user).userid)]

\* lines 105-108: status 200, the cookie and the body of a successful login
LogInSuccess(r) ==
    [ApiResponse(200, r.sanitizedUser, "Login successful")
        EXCEPT !.cookie = Some(The(r.user).userid)]

\* mutant: loginErr is ignored and the success response is sent
LogInLogin_IgnoreError(r) ==
    /\ r.kind = "LogIn" /\ r.pc = "login"
    /\ \E loginErr \in BOOLEAN :
          LET bound == [r EXCEPT
                          !.err = IF loginErr THEN Some("Login error") ELSE Null,
                          !.session.passport = Some(The(r.sanitizedUser).userid),
                          !.session.userId = Some(The(r.user).userid),
                          !.session.dirty = TRUE]
          IN  Resume(r, Responded(bound, LogInSuccess(bound)))
    /\ UNCHANGED << store, now, cookies, history >>

\* lines 91-108: req.login calls back; on success the session and the
\* cookie take user.userid and the 200 response is sent
LogInLogin(r) ==
    /\ r.kind = "LogIn" /\ r.pc = "login"
    /\ \E loginErr \in BOOLEAN :
          IF loginErr
          THEN Resume(r, Responded([r EXCEPT !.err = Some("Login error")],
                                   InternalError("Login error")))
          ELSE LET bound == [r EXCEPT
                               !.session.passport = Some(The(r.sanitizedUser).userid),
                               !.session.userId = Some(The(r.user).userid),
                               !.session.dirty = TRUE]
               IN  Resume(r, Responded(bound, LogInSuccess(bound)))
    /\ UNCHANGED << store, now, cookies, history >>

(* ------------------------------------------------------------------ *)
(* PassportLogOut, lines 118-133                                        *)
(* ------------------------------------------------------------------ *)
\* lines 118-119: req.session.destroy starts and drops req.session
LogOutBegin(c) ==
    /\ Arrive(Suspended([NewRequest("LogOut", c, NoBody)
                           EXCEPT !.session.destroyed = TRUE], "destroy"))
    /\ UNCHANGED << store, now, cookies, history >>

\* lines 125-129: the cookies a successful logout clears
LogOutCleared == {"connect.sid"}

\* mutant: the cookie is cleared before err is tested
LogOutDestroy_ClearOnError(r) ==
    /\ r.kind = "LogOut" /\ r.pc = "destroy"
    /\ \E err \in BOOLEAN :
          IF err
          THEN /\ req' = (req (-) SetToBag({r})) (+)
                         SetToBag({Responded(
                             [r EXCEPT !.err = Some("Session destruction error")],
                             [ApiResponse(500, Null, "Failed to log out")
                                EXCEPT !.cleared = LogOutCleared])})
               /\ sessions' = sessions
          ELSE /\ req' = (req (-) SetToBag({r})) (+)
                         SetToBag({Responded(r,
                             [ApiResponse(200, Null, "User logged out successfully")
                                EXCEPT !.cleared = LogOutCleared])})
               /\ sessions' = [sessions EXCEPT ![r.client] = Null]
    /\ UNCHANGED << store, now, cookies, history >>

\* lines 119-132: the store removed the session and calls back, or fails
LogOutDestroy(r) ==
    /\ r.kind = "LogOut" /\ r.pc = "destroy"
    /\ \E err \in BOOLEAN :
          IF err
          THEN /\ req' = (req (-) SetToBag({r})) (+)
                         SetToBag({Responded(
                             [r EXCEPT !.err = Some("Session destruction error")],
                             ApiResponse(500, Null, "Failed to log out"))})
               /\ sessions' = sessions
          ELSE /\ req' = (req (-) SetToBag({r})) (+)
                         SetToBag({Responded(r,
                             [ApiResponse(200, Null, "User logged out successfully")
                                EXCEPT !.cleared = LogOutCleared])})
               /\ sessions' = [sessions EXCEPT ![r.client] = Null]
    /\ UNCHANGED << store, now, cookies, history >>

(* ------------------------------------------------------------------ *)
(* ForgotPassword, lines 136-153                                        *)
(* ------------------------------------------------------------------ *)
ForgotBodies ==
    { [NoBody EXCEPT !.email = e] : e \in Emails \cup {EmailBad} }

\* lines 136-141
ForgotBegin(c, body) ==
    /\ LET r == NewRequest("Forgot", c, body)
       IN  IF ~validateEmail(body.email)
           THEN Arrive(Responded(r, ApiError(400, "Invalid email format.")))
           ELSE Arrive(Suspended(r, "findOne"))
    /\ UNCHANGED << store, now, cookies, history >>

\* the instance findOne returns is used only through its key and its email
Instance(u) == [userid |-> u.userid, email |-> u.email]

\* line 145
TokenExpiration(t) == t + ResetWindowMs

\* mutant: an unknown email is acknowledged like a known one
ForgotFindOne_Silent(r) ==
    /\ r.kind = "Forgot" /\ r.pc = "findOne"
    /\ \E found \in FindOne(FindByEmail(r.body.email)) :
          IF found = Null
          THEN Resume(r, Responded(r,
                   ApiResponse(200, Null, "Password reset email sent successfully.")))
          ELSE \E bytes \in RandomBytes :
                  Resume(r, Suspended(
                      [r EXCEPT !.user = Some(Instance(The(found))),
                                !.resetToken = Some(ToHex(bytes)),
                                !.tokenExpiration = Some(TokenExpiration(now))],
                      "update"))
    /\ UNCHANGED << store, now, cookies, history >>

\* lines 141-147: the user is read; a token and its expiration are drawn
\* and the update starts
ForgotFindOne(r) ==
    /\ r.kind = "Forgot" /\ r.pc = "findOne"
    /\ \E found \in FindOne(FindByEmail(r.body.email)) :
          IF found = Null
          THEN Resume(r, Responded(r,
                   ApiError(404, "User with this email does not exist.")))
          ELSE \E bytes \in RandomBytes :
                  Resume(r, Suspended(
                      [r EXCEPT !.user = Some(Instance(The(found))),
                                !.resetToken = Some(ToHex(bytes)),
                                !.tokenExpiration = Some(TokenExpiration(now))],
                      "update"))
    /\ UNCHANGED << store, now, cookies, history >>

\* instance.update(values): UPDATE ... WHERE userid = instance.userid
UpdateRow(userid, values) ==
    { IF u.userid = userid
      THEN [f \in DOMAIN u |-> IF f \in DOMAIN values THEN values[f] ELSE u[f]]
      ELSE u : u \in users }

\* line 147: user.update({ resetToken, tokenExpiration })
ForgotUpdate(r) ==
    /\ r.kind = "Forgot" /\ r.pc = "update"
    /\ users' = UpdateRow(The(r.user).userid,
                          [resetToken |-> r.resetToken,
                           tokenExpiration |-> r.tokenExpiration])
    /\ Resume(r, Suspended(r, "send"))
    /\ spent' = {}
    /\ resetCount' = [resetCount EXCEPT ![r.body.email] = 0]
    /\ UNCHANGED << nextId, now, cookies, lastReply >>

\* line 149
ResetUrl(token) == << "/", "verifyEmail", "/" >> \o token

\* mutant: sendResetEmail is not awaited, a failure goes unnoticed
ForgotSend_FireAndForget(r) ==
    /\ r.kind = "Forgot" /\ r.pc = "send"
    /\ \E ok \in BOOLEAN :
          Resume(r, Responded(
              [r EXCEPT !.mail = IF ok
                                 THEN Some([to |-> r.body.email,
                                            url |-> ResetUrl(The(r.resetToken))])
                                 ELSE Null],
              ApiResponse(200, Null, "Password reset email sent successfully.")))
    /\ UNCHANGED << store, now, cookies, history >>

\* lines 150-152: sendResetEmail resolves with the mail sent, or rejects
ForgotSend(r) ==
    /\ r.kind = "Forgot" /\ r.pc = "send"
    /\ \E ok \in BOOLEAN :
          IF ok
          THEN Resume(r, Responded(
                   [r EXCEPT !.mail = Some([to |-> r.body.email,
                                            url |-> ResetUrl(The(r.resetToken))])],
                   ApiResponse(200, Null, "Password reset email sent successfully.")))
          ELSE Resume(r, Responded(r, InternalError("Mail error")))
    /\ UNCHANGED << store, now, cookies, history >>

(* ------------------------------------------------------------------ *)
(* ResetPassword, lines 155-179                                         *)
(* ------------------------------------------------------------------ *)
ResetBodies ==
    { [NoBody EXCEPT !.token = t, !.newPassword = w] :
          t \in Tokens, w \in {PwdNew, PwdWeak} }

\* mutant: the password is not validated before the lookup
ResetBegin_NoValidation(c, body) ==
    /\ LET r == NewRequest("Reset", c, body)
       IN  Arrive(Suspended([r EXCEPT !.queryNow = now], "findOne"))
    /\ UNCHANGED << store, now, cookies, history >>

\* lines 155-168: validation; the query is built with new Date()
ResetBegin(c, body) ==
    /\ LET r == NewRequest("Reset", c, body)
       IN  IF ~validatePassword(body.newPassword)
           THEN Arrive(Responded(r, ApiError(400, WeakPassword)))
           ELSE Arrive(Suspended([r EXCEPT !.queryNow = now], "findOne"))
    /\ UNCHANGED << store, now, cookies, history >>

\* mutant: Op.gte in place of Op.gt
ResetMatches_Gte(token, date) ==
    { u \in users : /\ u.resetToken = Some(token)
                    /\ u.tokenExpiration # Null
                    /\ The(u.tokenExpiration) >= date }

\* lines 163-168: resetToken = token AND tokenExpiration > date
ResetMatches(token, date) ==
    { u \in users : /\ u.resetToken = Some(token)
                    /\ u.tokenExpiration # Null
                    /\ The(u.tokenExpiration) > date }

\* lines 163-172: the lookup resolves; the update starts
ResetFindOne(r) ==
    /\ r.kind = "Reset" /\ r.pc = "findOne"
    /\ \E found \in FindOne(ResetMatches(r.body.token, r.queryNow)) :
          LET looked == [r EXCEPT !.replay = r.body.token \in spent]
          IN  IF found = Null
              THEN Resume(r, Responded(looked,
                       ApiError(400, "Invalid or expired reset token.")))
              ELSE Resume(r, Suspended(
                       [looked EXCEPT !.user = Some(Instance(The(found)))],
                       "update"))
    /\ UNCHANGED << store, now, cookies, history >>

\* mutant: the update leaves tokenExpiration as it is
ResetValues_KeepExpiration(newPassword) ==
    [password |-> Hash(newPassword), resetToken |-> Null]

\* lines 172-176: the values user.update writes
ResetValues(newPassword) ==
    [password |-> Hash(newPassword), resetToken |-> Null, tokenExpiration |-> Null]

\* lines 172-178
ResetUpdate(r) ==
    /\ r.kind = "Reset" /\ r.pc = "update"
    /\ users' = UpdateRow(The(r.user).userid, ResetValues(r.body.newPassword))
    /\ Resume(r, Responded(r, ApiResponse(200, Null, "Password reset successfully")))
    /\ spent' = spent \cup {r.body.token}
    /\ resetCount' = [resetCount EXCEPT ![The(r.user).email] = @ + 1]
    /\ UNCHANGED << nextId, now, cookies, lastReply >>

(* ------------------------------------------------------------------ *)
(* The client and the clock                                            *)
(* ------------------------------------------------------------------ *)
ReplyName(r) ==
    IF r.kind = "LogIn" /\ The(r.res).status = 200 THEN "login"
    ELSE IF r.kind = "LogOut" /\ The(r.res).status = 200 THEN "logout"
    ELSE "other"

\* the client receives the response and applies its cookies
Deliver(r) ==
    /\ r.pc = "done"
    /\ LET res == The(r.res)
           jar == cookies[r.client]
       IN  /\ cookies' = [cookies EXCEPT ![r.client] =
                [sid |-> IF "connect.sid" \in res.cleared THEN FALSE
                         ELSE jar.sid \/ res.sid,
                 session_cookie |->
                     IF "session_cookie" \in res.cleared THEN Null
                     ELSE IF res.cookie # Null THEN res.cookie
                     ELSE jar.session_cookie]]
           /\ lastReply' = [lastReply EXCEPT ![r.client] = ReplyName(r)]
    /\ req' = req (-) SetToBag({r})
    /\ UNCHANGED << store, now, sessions, spent, resetCount >>

\* a row is deleted by a part of the system outside these controllers (the
\* concurrent deletion the login re-fetch guards against)
DeleteUser ==
    /\ \E u \in users : users' = users \ {u}
    /\ UNCHANGED << nextId, now, sessions, cookies, req, history >>

Tick ==
    /\ now + TickMs <= MaxNow
    /\ now' = now + TickMs
    /\ UNCHANGED << store, sessions, cookies, req, history >>

RegisterNext ==
    \/ \E c \in Clients, body \in RegisterBodies : RegisterBegin(c, body)
    \/ \E r \in InFlight : RegisterFindOne(r)
    \/ \E r \in InFlight : RegisterCreate(r)
    \/ \E r \in InFlight : RegisterBind(r)
    \/ \E r \in InFlight : RegisterRefetch(r)

LogInNext ==
    \/ \E c \in Clients, body \in LogInBodies : LogInBegin(c, body)
    \/ \E r \in InFlight : LogInVerify(r)
    \/ \E r \in InFlight : LogInBind(r)
    \/ \E r \in InFlight : LogInRefetch(r)
    \/ \E r \in InFlight : LogInLogin(r)

LogOutNext ==
    \/ \E c \in Clients : LogOutBegin(c)
    \/ \E r \in InFlight : LogOutDestroy(r)

ForgotNext ==
    \/ \E c \in Clients, body \in ForgotBodies : ForgotBegin(c, body)
    \/ \E r \in InFlight : ForgotFindOne(r)
    \/ \E r \in InFlight : ForgotUpdate(r)
    \/ \E r \in InFlight : ForgotSend(r)

ResetNext ==
    \/ \E c \in Clients, body \in ResetBodies : ResetBegin(c, body)
    \/ \E r \in InFlight : ResetFindOne(r)
    \/ \E r \in InFlight : ResetUpdate(r)

DeliverNext == \E r \in InFlight : Deliver(r)

Next ==
    \/ RegisterNext
    \/ LogInNext
    \/ LogOutNext
    \/ ForgotNext
    \/ ResetNext
    \/ DeliverNext
    \/ Tick

Spec == Init /\ [][Next]_vars

\* registration alone, from the empty table
RegisterSpec == Init /\ [][RegisterNext \/ DeliverNext]_vars

\* the rows that registering RegisterA and then RegisterB leaves
UserA == NewUser(1, RegisterA)
UserB == NewUser(2, RegisterB)

\* login and logout, with EmailA registered and EmailB not
SessionInit == InitWith({UserA})
SessionSpec == SessionInit /\ [][LogInNext \/ LogOutNext \/ DeliverNext]_vars

\* the reset flow under the clock, with EmailA registered and EmailB not
ResetInit == InitWith({UserA})
ResetSpec == ResetInit /\ [][ForgotNext \/ ResetNext \/ DeliverNext \/ Tick]_vars

\* the reset flow of two users within one reset window
CollisionInit == InitWith({UserA, UserB})
CollisionSpec == CollisionInit /\ [][ForgotNext \/ ResetNext \/ DeliverNext]_vars

(* ------------------------------------------------------------------ *)
(* Properties                                                          *)
(* ------------------------------------------------------------------ *)
Done(r, kind) == r.kind = kind /\ r.pc = "done"
Status(r) == The(r.res).status
Message(r) == The(r.res).message

\* C1: once a ResetPassword has succeeded with a token, every later
\* ResetPassword whose lookup runs with that token, no ForgotPassword having
\* stored a token in between, is answered 400 "Invalid or expired reset token."
C1_TokenIsSingleUse ==
    \A r \in InFlight :
        r.replay => /\ Done(r, "Reset")
                    /\ Status(r) = 400
                    /\ Message(r) = "Invalid or expired reset token."

\* C2: between two issues of a token to a user, at most one ResetPassword
\* changes that user's password, however the requests are interleaved
C2_TokenConsumedAtMostOnce == \A e \in Emails : resetCount[e] <= 1

\* the rows that hold a token
Holders(token) == { u \in users : u.resetToken = Some(token) }

\* a ResetPassword made at or after the expiration stored with its token
MadeAfterExpiry(r) ==
    /\ r.kind = "Reset"
    /\ Holders(r.body.token) # {}
    /\ \A u \in Holders(r.body.token) : The(u.tokenExpiration) <= r.queryNow

\* C3: when the lookup of a ResetPassword made at or after the expiration
\* stored with its token resolves, the request is answered 400 "Invalid or
\* expired reset token." and the User table (password, resetToken,
\* tokenExpiration) stays as it was
C3_ExpiredTokenRejected ==
    [][\A r \in InFlight :
          ( /\ MadeAfterExpiry(r) /\ r.pc = "findOne"
            /\ CopiesIn(r, req') < CopiesIn(r, req) )
          => ( /\ users' = users
               /\ \E q \in BagToSet(req') :
                     /\ CopiesIn(q, req') > CopiesIn(q, req)
                     /\ q.kind = "Reset" /\ q.pc = "done" /\ q.body = r.body
                     /\ The(q.res).status = 400
                     /\ The(q.res).message = "Invalid or expired reset token." )]_vars

\* C3 witness: a rejected ResetPassword whose token a row still holds, made
\* at that token's expiration or later
C3_Witness ==
    \E r \in InFlight :
        /\ Done(r, "Reset") /\ Status(r) = 400
        /\ MadeAfterExpiry(r)

\* C4: a PassportRegister whose lookup finds the email already registered is
\* answered 409, creates no row and binds no session, and exactly one row
\* holds that email
C4_SecondRegisterConflicts ==
    \A r \in InFlight :
        (Done(r, "Register") /\ r.existingUser # Null)
        => /\ Status(r) = 409
           /\ r.user = Null
           /\ ~r.session.dirty
           /\ ~The(r.res).sid
           /\ Cardinality(FindByEmail(r.body.email)) = 1

C4_Witness ==
    \E r \in InFlight :
        /\ Done(r, "Register") /\ r.existingUser # Null
        /\ Status(r) = 409

\* C5: no two rows of the User table share an email
C5_EmailUnique ==
    \A u \in users : \A v \in users : u.email = v.email => u = v

\* C5 witness: two registrations of one email both passed the lookup; one
\* created the row and the other's create was rejected
C5_Witness ==
    \E r \in InFlight : \E q \in InFlight :
        /\ r.kind = "Register" /\ r.user # Null
        /\ Done(q, "Register") /\ q.body.email = r.body.email
        /\ q.existingUser = Null /\ q.user = Null /\ Status(q) = 500

MissingRequired(body) ==
    \E v \in {body.email, body.password, body.phoneNumber} :
        v = Undefined \/ v = << >>

\* C6: a PassportRegister with email, password or phoneNumber absent or
\* empty ends with 400 in its first step and creates no row
C6_MissingFieldRejected ==
    /\ \A r \in InFlight :
          (r.kind = "Register" /\ MissingRequired(r.body))
          => /\ r.pc = "done"
             /\ Status(r) = 400
             /\ r.user = Null
    /\ \A u \in users : ~MissingRequired(u)

C6_Witness ==
    \E r \in InFlight :
        /\ Done(r, "Register") /\ Status(r) = 400
        /\ r.body.phoneNumber = Undefined
        /\ r.body.email = EmailA /\ r.body.password = PwdOld

\* C7: a PassportRegister answered 201 has its row in the User table and its
\* session bound to that row's userid and saved
C7_RegisteredWithSession ==
    \A r \in InFlight :
        (Done(r, "Register") /\ Status(r) = 201)
        => /\ \E u \in users :
                 /\ u.email = r.body.email
                 /\ r.user # Null /\ u.userid = The(r.user).userid
                 /\ r.session.userId = Some(u.userid)
           /\ The(r.res).sid

C7_Witness == \E r \in InFlight : Done(r, "Register") /\ Status(r) = 201

\* C8: a PassportLogIn answered 200 sets session_cookie and the session's
\* userId to the verified user's userid, and its body has no password
C8_LoginCookieAndBody ==
    \A r \in InFlight :
        (Done(r, "LogIn") /\ Status(r) = 200)
        => /\ r.user # Null
           /\ The(r.res).cookie = Some(The(r.user).userid)
           /\ r.session.userId = Some(The(r.user).userid)
           /\ The(r.res).data # Null
           /\ "password" \notin DOMAIN The(The(r.res).data)

C8_Witness == \E r \in InFlight : Done(r, "LogIn") /\ Status(r) = 200

\* a login that passed validation and failed on its credentials
WrongPassword(r) ==
    /\ Done(r, "LogIn") /\ LogInValidation(r.body) = Null
    /\ Status(r) # 500
    /\ \E u \in FindByEmail(r.body.email) : u.password # Hash(r.body.password)

UnknownEmail(r) ==
    /\ Done(r, "LogIn") /\ LogInValidation(r.body) = Null
    /\ Status(r) # 500
    /\ FindByEmail(r.body.email) = {}

C10_LogoutClearsLoginCookie ==
    \A c \in Clients :
        lastReply[c] = "logout" => cookies[c].session_cookie = Null

\* logins of the registered EmailA while its row may be deleted
DeletionSpec == SessionInit /\ [][LogInNext \/ DeliverNext \/ DeleteUser]_vars

\* at most one request in flight is waiting on a call
OneAwaiting ==
    /\ Cardinality({ r \in InFlight : r.pc # "done" }) <= 1
    /\ \A r \in InFlight : r.pc # "done" => CopiesIn(r, req) = 1

\* no response is waiting to be delivered
NoReply == \A r \in InFlight : r.pc # "done"

\* the five handlers, with EmailA registered: a response is delivered before
\* the server takes another step, and a request arrives beside a waiting one
\* only if it is answered on arrival
SerialInit == InitWith({UserA})
SerialNext ==
    \/ NoReply /\ RegisterNext /\ OneAwaiting'
    \/ NoReply /\ LogInNext /\ OneAwaiting'
    \/ NoReply /\ LogOutNext /\ OneAwaiting'
    \/ NoReply /\ ForgotNext /\ OneAwaiting'
    \/ NoReply /\ ResetNext /\ OneAwaiting'
    \/ DeliverNext
SerialSpec == SerialInit /\ [][SerialNext]_vars

\* C11: a PassportLogOut whose session destruction reported no error is
\* answered 200 and clears connect.sid, whether or not the request carried a
\* session bound to a user; one whose destruction reported an error is
\* answered 500 and clears and sets no cookie
C11_LogoutAlwaysAcknowledged ==
    \A r \in InFlight :
        Done(r, "LogOut")
        => IF r.err = Null
           THEN /\ Status(r) = 200
                /\ The(r.res).cleared = {"connect.sid"}
           ELSE /\ Status(r) = 500
                /\ The(r.res).cleared = {}
                /\ The(r.res).cookie = Null
                /\ ~The(r.res).sid

\* C11 witness: a second logout in a row, made with no session, is answered
\* 200
C11_Witness ==
    \E r \in InFlight :
        /\ Done(r, "LogOut") /\ Status(r) = 200
        /\ r.session.userId = Null
        /\ sessions[r.client] = Null
        /\ lastReply[r.client] = "logout"
        /\ BagCardinality(req) = 1

\* a request that fails a validation check of its handler
FailsValidation(r) ==
    \/ /\ r.kind = "Register"
       /\ \/ MissingRequired(r.body)
          \/ ~validateEmail(r.body.email)
          \/ ~validatePassword(r.body.password)
          \/ ~validatePhoneNumber(r.body.phoneNumber)
    \/ /\ r.kind = "LogIn"
       /\ \/ r.body.email \in {Undefined, << >>}
          \/ r.body.password \in {Undefined, << >>}
          \/ ~validateEmail(r.body.email)
          \/ ~validatePassword(r.body.password)
    \/ r.kind = "Forgot" /\ ~validateEmail(r.body.email)
    \/ r.kind = "Reset" /\ ~validatePassword(r.body.newPassword)

\* C12: a PassportRegister, PassportLogIn, ForgotPassword or ResetPassword
\* that fails a validation check is answered 400 in the step in which it
\* arrives: it has read no row, verified no credentials and sent no mail, its
\* session is unmodified and unsaved, and the User table, the session store
\* and the cookies are as they were before it arrived
C12_ValidationFailureTouchesNothing ==
    [][\A r \in BagToSet(req') :
          (FailsValidation(r) /\ CopiesIn(r, req') > CopiesIn(r, req))
          => /\ r.pc = "done"
             /\ The(r.res).status = 400
             /\ The(r.res).cookie = Null /\ ~The(r.res).sid
             /\ r.existingUser = Null /\ r.user = Null
             /\ r.sanitizedUser = Null /\ r.mail = Null
             /\ ~r.session.dirty
             /\ users' = users /\ nextId' = nextId
             /\ sessions' = sessions /\ cookies' = cookies]_vars

\* C12 witness: a ResetPassword with a weak password is rejected while a row
\* holds its token and a ForgotPassword waits to store a new one
C12_Witness ==
    \E r \in InFlight : \E q \in InFlight :
        /\ Done(r, "Reset") /\ Status(r) = 400 /\ FailsValidation(r)
        /\ Holders(r.body.token) # {}
        /\ q.kind = "Forgot" /\ q.pc = "update"

\* C13: in every row of the User table, resetToken and tokenExpiration are
\* both null or both set
C13_TokenAndExpirationTogether ==
    \A u \in users : (u.resetToken = Null) <=> (u.tokenExpiration = Null)

\* C13 witness: a user registered in this run holds a token, and another
\* user's token was consumed by a reset
C13_Witness ==
    \E u \in users : \E v \in users :
        /\ u.email = EmailB /\ u.resetToken # Null /\ u.tokenExpiration # Null
        /\ v.password = Hash(PwdNew) /\ v.resetToken = Null

\* C14: when the lookup of a ForgotPassword whose email no row holds
\* resolves, the request is answered 404 having drawn no token and sent no
\* mail, and the User table stays as it was
C14_UnknownEmailNotFound ==
    [][\A r \in InFlight :
          ( /\ r.kind = "Forgot" /\ r.pc = "findOne"
            /\ FindByEmail(r.body.email) = {}
            /\ CopiesIn(r, req') < CopiesIn(r, req) )
          => ( /\ users' = users
               /\ \E q \in BagToSet(req') :
                     /\ CopiesIn(q, req') > CopiesIn(q, req)
                     /\ q.kind = "Forgot" /\ q.pc = "done" /\ q.body = r.body
                     /\ The(q.res).status = 404
                     /\ q.resetToken = Null /\ q.tokenExpiration = Null
                     /\ q.mail = Null )]_vars

\* C14 witness: a ForgotPassword for the well-formed, unregistered EmailB was
\* answered 404
C14_Witness ==
    \E r \in InFlight :
        /\ Done(r, "Forgot") /\ Status(r) = 404
        /\ r.body.email = EmailB /\ validateEmail(r.body.email)
        /\ FindByEmail(r.body.email) = {}

\* C15: every row's role is admin or user; the row a PassportRegister
\* creates has the requested role when that is admin or user, and user
\* otherwise; and no step of any handler changes the role or the phone number
\* of a row
C15_RoleAllowedAndFixed ==
    /\ [](\A u \in users : u.role \in {RoleAdmin, RoleUser})
    /\ [](\A r \in InFlight :
             (r.kind = "Register" /\ r.user # Null)
             => The(r.user).role = IF r.body.role \in {RoleAdmin, RoleUser}
                                   THEN r.body.role ELSE RoleUser)
    /\ [][\A u \in users :
             \E v \in users' : /\ v.userid = u.userid
                                /\ v.role = u.role
                                /\ v.phoneNumber = u.phoneNumber]_vars

\* C15 witness: a registration that asked for the role root created a row
\* with the role user, beside an admin's row whose password has been reset
C15_Witness ==
    /\ \E r \in InFlight :
          /\ Done(r, "Register") /\ Status(r) = 201
          /\ r.body.role = RoleRoot
          /\ The(r.user).role = RoleUser
          /\ The(r.user) \in users
    /\ \E u \in users :
          /\ u.email = EmailA /\ u.role = RoleAdmin /\ u.phoneNumber = Phone
          /\ u.password = Hash(PwdNew)

\* a PassportLogIn that ended after its credentials were verified without
\* completing req.login: setSessionForUser rejected, the re-fetch found no
\* row, or req.login reported an error
FailedAfterVerification(r) ==
    /\ Done(r, "LogIn") /\ r.user # Null
    /\ r.sanitizedUser = Null \/ r.err # Null

\* C16: a PassportLogIn that fails after its credentials were verified is
\* answered with an error status, 404 when the re-fetch found no row, and
\* its response carries neither the success body nor session_cookie
C16_NoHalfAuthenticatedReply ==
    \A r \in InFlight :
        FailedAfterVerification(r)
        => /\ Status(r) >= 400
           /\ Message(r) # "Login successful"
           /\ The(r.res).data = Null
           /\ The(r.res).cookie = Null
           /\ (r.session.dirty /\ r.sanitizedUser = Null) => Status(r) = 404
           /\ r.err # Null => Status(r) = 500

\* C16 witness: one login ended 404 because its user's row was deleted after
\* verification, and another ended on a req.login error
C16_Witness ==
    \E r \in InFlight : \E q \in InFlight :
        /\ FailedAfterVerification(r) /\ Status(r) = 404
        /\ r.session.userId # Null
        /\ FailedAfterVerification(q) /\ q.err = Some("Login error")

\* the row of users' with the primary key of the row u
RowAfter(u) == CHOOSE v \in users' : v.userid = u.userid

\* the request that takes this step
Stepping(r) == r \in InFlight /\ CopiesIn(r, req') < CopiesIn(r, req)

\* C17: a ForgotPassword update replaces the token and expiration its user's
\* row holds by the pair it issued; a stored token stays on its row, with its
\* expiration, until a ForgotPassword for that user overwrites it or a
\* ResetPassword made with that very token consumes it; and a ResetPassword
\* whose lookup runs with a token no row holds any more is answered 400
\* "Invalid or expired reset token."
C17_FreshTokenReplacesOld ==
    [][/\ \A r \in InFlight :
             (Stepping(r) /\ r.kind = "Forgot" /\ r.pc = "update")
             => \A u \in users :
                   u.userid = The(r.user).userid
                   => /\ RowAfter(u).resetToken = r.resetToken
                      /\ RowAfter(u).tokenExpiration = r.tokenExpiration
       /\ \A u \in users :
             ( /\ u.resetToken # Null
               /\ \/ RowAfter(u).resetToken # u.resetToken
                  \/ RowAfter(u).tokenExpiration # u.tokenExpiration )
             => \E r \in InFlight :
                   /\ Stepping(r) /\ r.pc = "update"
                   /\ The(r.user).userid = u.userid
                   /\ \/ r.kind = "Forgot"
                      \/ r.kind = "Reset" /\ Some(r.body.token) = u.resetToken
       /\ \A r \in InFlight :
             ( /\ Stepping(r) /\ r.kind = "Reset" /\ r.pc = "findOne"
               /\ Holders(r.body.token) = {} )
             => \E q \in BagToSet(req') :
                   /\ CopiesIn(q, req') > CopiesIn(q, req)
                   /\ Done(q, "Reset") /\ q.body = r.body
                   /\ The(q.res).status = 400
                   /\ The(q.res).message = "Invalid or expired reset token."
      ]_vars

\* a ForgotPassword that ended after storing its token without a mail sent
MailFailed(r) == Done(r, "Forgot") /\ r.resetToken # Null /\ r.mail = Null

\* C18: a ForgotPassword whose sendResetEmail failed is answered with an
\* error status and not with the success acknowledgement, and a
\* ForgotPassword answered 200 has sent its mail
C18_MailFailureIsAnError ==
    \A r \in InFlight :
        /\ MailFailed(r)
           => /\ Status(r) >= 400
              /\ Message(r) # "Password reset email sent successfully."
        /\ (Done(r, "Forgot") /\ Status(r) = 200)
           => r.mail = Some([to |-> r.body.email,
                             url |-> ResetUrl(The(r.resetToken))])

\* C18 witness: a ForgotPassword ended 500 on a failed mail while its token
\* is stored on the user's row
C18_Witness ==
    \E r \in InFlight :
        /\ MailFailed(r) /\ Status(r) = 500
        /\ \E u \in users : u.email = r.body.email /\ u.resetToken = r.resetToken

\* a PassportRegister that created its row and ended before the re-fetch:
\* its setSessionForUser was rejected
BindFailed(r) ==
    /\ Done(r, "Register") /\ r.user # Null /\ r.sanitizedUser = Null

\* C19: a PassportRegister whose setSessionForUser was rejected is answered
\* with an error, never 201; the row it created stays in the User table; and
\* a PassportRegister of the same email whose lookup runs after that is
\* answered 409 and creates nothing
C19_BindFailureNotRolledBack ==
    [][\A r \in InFlight :
          BindFailed(r)
          => /\ Status(r) >= 400
             /\ \E u \in users' : /\ u.userid = The(r.user).userid
                                  /\ u.email = r.body.email
             /\ \A q \in InFlight :
                   ( /\ Stepping(q) /\ q.kind = "Register" /\ q.pc = "findOne"
                     /\ q.body.email = r.body.email )
                   => /\ users' = users
                      /\ \E p \in BagToSet(req') :
                            /\ CopiesIn(p, req') > CopiesIn(p, req)
                            /\ Done(p, "Register") /\ p.body = q.body
                            /\ The(p.res).status = 409]_vars

\* C19 witness: a registration failed on its session bind, and a retry with
\* the same body found the row it had created and was answered 409
C19_Witness ==
    \E r \in InFlight : \E q \in InFlight :
        /\ BindFailed(r) /\ Status(r) = 500
        /\ Done(q, "Register") /\ q.body = r.body
        /\ q.existingUser = r.user /\ Status(q) = 409

\* C20: at any time at most one row holds a given unexpired token, so that
\* the lookup of a ResetPassword by token can only find the user the token
\* was issued to
C20_TokenBoundToOneUser ==
    \A t \in Tokens : Cardinality(ResetMatches(t, now)) <= 1
====
